---- MODULE Spec2Model ----
(***************************************************************************)
(* JanSahayak civic-complaint core (src/app.py): the complaint store, the  *)
(* audit pipeline (vision -> risk -> context -> plan -> record) and the    *)
(* status manager.                                                         *)
(*                                                                         *)
(* Strings that the code transforms (location, issue type) are sequences   *)
(* of one-character strings.  JSON values whose Python type matters are    *)
(* tagged records: [tag |-> "int", n |-> 5], [tag |-> "null"], ...         *)
(* Wall-clock time is counted in whole seconds, the resolution of every    *)
(* strftime format the code uses.                                          *)
(***************************************************************************)
EXTENDS Integers, Sequences, FiniteSets, TLC

VARIABLES
    fileState,   \* civic_memory.json: "missing" | "malformed" | "ok"
    store,       \* the JSON array held by the file when fileState = "ok"
    now,         \* datetime.now(), in seconds
    call,        \* the last operation called and its arguments
    result,      \* run_audit_pipeline's returned record: <<>> is None
    updated,     \* update_complaint_status's return value
    raised,      \* the last operation ended in an uncaught exception
    risk,        \* the last value returned by risk_assessment_tool
    writes,      \* number of save_memory calls made by the last operation
    sessions     \* per browser session: the operation it is in the middle of

vars == <<fileState, store, now, call, result, updated, raised, risk, writes, sessions>>

----------------------------------------------------------------------------
(* Bounds of the model *)

\* status_history entries held by the whole store (one per record, one per update)
MaxEntries == 3
\* records in the store of the pipeline-only specification
MaxPipelineStore == 1

----------------------------------------------------------------------------
(* Constants of the program *)

COMPLAINT_STATUS == {"SUBMITTED", "ACKNOWLEDGED", "IN_PROGRESS", "RESOLVED", "REJECTED"}

MetaKeys == {"near_school", "heavy_traffic", "water_leak", "monsoon_critical"}

Pothole == <<"P", "o", "t", "h", "o", "l", "e">>
WaterLeakage == <<"W", "a", "t", "e", "r", " ", "L", "e", "a", "k", "a", "g", "e">>
ISSUE_TYPES == {Pothole, WaterLeakage}

----------------------------------------------------------------------------
(* Python values *)

Absent == [tag |-> "absent"]
Null == [tag |-> "null"]
IntV(n) == [tag |-> "int", n |-> n]
StrV(s) == [tag |-> "str", s |-> s]
\* a JSON object of booleans: the keys holding true and the keys holding false
DictV(on, off) == [tag |-> "dict", on |-> on, off |-> off]

\* str.lower() on the letters the model's strings use
LowerChar(c) ==
    CASE c = "M" -> "m"
      [] c = "G" -> "g"
      [] c = "P" -> "p"
      [] c = "W" -> "w"
      [] c = "L" -> "l"
      [] OTHER -> c

Lower(s) == [i \in DOMAIN s |-> LowerChar(s[i])]

\* str.replace(" ", "_")
ReplaceSpace(s) == [i \in DOMAIN s |-> IF s[i] = " " THEN "_" ELSE s[i]]

\* d.get(key) is truthy: only a key holding true
Truthy(metadata, key) == key \in metadata.on

----------------------------------------------------------------------------
(* load_memory / save_memory *)

\* mutation: the except branch is gone, what the file held is returned
load_memory_Trusting(state, data) == IF state = "missing" THEN <<>> ELSE data

load_memory(state, data) == IF state = "ok" THEN data ELSE <<>>

\* mutation: the file is opened for appending, what it holds stays and only
\* the records beyond its length are added
save_memory_Appending(history, disk) ==
    disk \o SubSeq(history, Len(disk) + 1, Len(history))

\* open(MEMORY_FILE, "w") and json.dump: the file holds the caller's list,
\* whatever it held before
save_memory(history, disk) == history

----------------------------------------------------------------------------
(* risk_assessment_tool *)

\* int(severity) raises for None and for a non-numeric string;
\* metadata.get raises when metadata is not a dict
RiskRaises(severity, metadata) ==
    \/ severity.tag # "int"
    \/ metadata.tag # "dict"
\* mutation: the CRITICAL tier starts above 80
Urgency_Strict(risk_score) ==
    IF risk_score > 80 THEN "CRITICAL"
    ELSE IF risk_score >= 50 THEN "HIGH"
    ELSE "MODERATE"

Urgency(risk_score) ==
    IF risk_score >= 80 THEN "CRITICAL"
    ELSE IF risk_score >= 50 THEN "HIGH"
    ELSE "MODERATE"

Min(a, b) == IF a <= b THEN a ELSE b

risk_assessment_tool(damage_type, severity, metadata) ==
    IF RiskRaises(severity, metadata)
    THEN [risk_index |-> 50, urgency |-> "MODERATE"]
    ELSE LET s0 == severity.n * 10
             s1 == IF Truthy(metadata, "near_school") THEN s0 + 20 ELSE s0
             s2 == IF Truthy(metadata, "heavy_traffic") THEN s1 + 15 ELSE s1
             s3 == IF Truthy(metadata, "water_leak") THEN s2 + 10 ELSE s2
             s4 == IF Truthy(metadata, "monsoon_critical") THEN s3 + 25 ELSE s3
             risk_score == Min(100, s4)
         IN  [risk_index |-> risk_score, urgency |-> Urgency(risk_score)]

----------------------------------------------------------------------------
(* get_context_summary *)
\* mutation: the comparison without .lower()
Matches_CaseSensitive(location, history) ==
    SelectSeq(history, LAMBDA r : r.location = location)

Matches(location, history) ==
    SelectSeq(history, LAMBDA r : Lower(r.location) = Lower(location))

Unresolved(relevant) == SelectSeq(relevant, LAMBDA r : r.status # "RESOLVED")

\* d.get('severity', default)
GetSeverity(vision_data, default) ==
    IF vision_data.severity = Absent THEN IntV(default) ELSE vision_data.severity

\* the three messages, with the values the f-strings interpolate
get_context_summary(location, history) ==
    LET relevant == Matches(location, history)
        unresolved == Unresolved(relevant)
    IN  IF relevant = <<>>
        THEN [msg |-> "No prior incidents"]
        ELSE IF unresolved # <<>>
        THEN [msg |-> "RECURRING ISSUE",
              count |-> Len(unresolved),
              last_sev |-> GetSeverity(relevant[Len(relevant)].vision_data, 0)]
        ELSE [msg |-> "All resolved", count |-> Len(relevant)]

----------------------------------------------------------------------------
(* analyze_image_with_vision *)
\* mutation: another default severity
default_data_Severity6(issue_type) ==
    [damage_type |-> StrV(ReplaceSpace(Lower(issue_type))),
     severity |-> IntV(6),
     metadata |-> DictV({}, MetaKeys),
     description |-> [tag |-> "manual", issue_type |-> issue_type]]

\* the except branch's default_data
default_data(issue_type) ==
    [damage_type |-> StrV(ReplaceSpace(Lower(issue_type))),
     severity |-> IntV(5),
     metadata |-> DictV({}, MetaKeys),
     description |-> [tag |-> "manual", issue_type |-> issue_type]]

\* response: [kind |-> "error"] when generate_content, response.text,
\* json.loads or the .get on a non-object raises; otherwise the parsed object
analyze_image_with_vision(response, issue_type) ==
    IF response.kind = "error" THEN default_data(issue_type) ELSE response.data

\* `not vision_data`: the empty dict
IsEmpty(vision_data) ==
    /\ vision_data.damage_type = Absent
    /\ vision_data.severity = Absent
    /\ vision_data.metadata = Absent
    /\ vision_data.description = Absent

----------------------------------------------------------------------------
(* generate_action_plan *)

\* the fallback's  severity * 5000  raises TypeError for None
PlanRaises(vision_data, response) ==
    /\ response.kind = "error"
    /\ GetSeverity(vision_data, 5).tag = "null"

generate_action_plan(vision_data, risk_data, context, location, response) ==
    IF response.kind = "error"
    THEN [kind |-> "fallback",
          severity |-> GetSeverity(vision_data, 5),
          damage |-> IF vision_data.damage_type = Absent
                     THEN StrV("infrastructure damage")
                     ELSE vision_data.damage_type]
    ELSE [kind |-> "text", text |-> response.text]

----------------------------------------------------------------------------
(* generate_complaint_id and the timestamp format *)

\* f"PU{now:%Y%m%d%H%M%S}"
generate_complaint_id(t) == [prefix |-> "PU", digits |-> t]

\* strftime("%Y-%m-%d %H:%M:%S")
Stamp(t) == [ymdhms |-> t]

----------------------------------------------------------------------------
(* run_audit_pipeline *)
\* mutation: the record is born without its first history entry
NewRecord_EmptyHistory(complaint_id, t_record, t_history, location, issue_type, citizen_name, citizen_phone, vision_data, risk_data, action_plan, context) ==
    [complaint_id |-> complaint_id,
     timestamp |-> Stamp(t_record),
     location |-> location,
     issue_type |-> issue_type,
     citizen_name |-> citizen_name,
     citizen_phone |-> citizen_phone,
     vision_data |-> vision_data,
     risk_data |-> risk_data,
     action_plan |-> action_plan,
     context |-> context,
     status |-> "SUBMITTED",
     status_history |-> << >>,
     authority_notes |-> ""]

NewRecord(complaint_id, t_record, t_history, location, issue_type, citizen_name, citizen_phone, vision_data, risk_data, action_plan, context) ==
    [complaint_id |-> complaint_id,
     timestamp |-> Stamp(t_record),
     location |-> location,
     issue_type |-> issue_type,
     citizen_name |-> citizen_name,
     citizen_phone |-> citizen_phone,
     vision_data |-> vision_data,
     risk_data |-> risk_data,
     action_plan |-> action_plan,
     context |-> context,
     status |-> "SUBMITTED",
     status_history |-> << [status |-> "SUBMITTED", timestamp |-> Stamp(t_history)] >>,
     authority_notes |-> ""]

\* Phase 2's call: severity defaults to 5 and metadata to {} when the key is absent
PipelineRisk(vision_data) ==
    risk_assessment_tool(
        vision_data.damage_type,
        GetSeverity(vision_data, 5),
        IF vision_data.metadata = Absent THEN DictV({}, {}) ELSE vision_data.metadata)

\* One whole call.  vision and plan are what the two external services answer;
\* t_id <= t_record <= t_history are the three clock readings of lines 274-288.
run_audit_pipeline(location, issue_type, citizen_name, citizen_phone, vision, plan, t_id, t_record, t_history) ==
    LET vision_data == analyze_image_with_vision(vision, issue_type)
        risk_data == PipelineRisk(vision_data)
        context == get_context_summary(location, load_memory(fileState, store))
        action_plan == generate_action_plan(vision_data, risk_data, context, location, plan)
        record == NewRecord(generate_complaint_id(t_id), t_record, t_history, location,
                            issue_type, citizen_name, citizen_phone, vision_data,
                            risk_data, action_plan, context)
        history == load_memory(fileState, store)
    IN  /\ call' = [op |-> "submit", vision |-> vision, plan |-> plan]
        /\ updated' = FALSE
        /\ UNCHANGED sessions
        /\ IF IsEmpty(vision_data)
           THEN \* line 252: return None, logs
                /\ result' = <<>>
                /\ raised' = FALSE
                /\ risk' = Null
                /\ writes' = 0
                /\ UNCHANGED <<fileState, store, now>>
           ELSE IF PlanRaises(vision_data, plan)
           THEN \* the TypeError leaves generate_action_plan and the pipeline
                /\ result' = <<>>
                /\ raised' = TRUE
                /\ risk' = risk_data
                /\ writes' = 0
                /\ UNCHANGED <<fileState, store, now>>
           ELSE /\ result' = <<record>>
                /\ raised' = FALSE
                /\ risk' = risk_data
                /\ store' = Append(history, record)
                /\ fileState' = "ok"
                /\ writes' = 1
                /\ now' = t_history

----------------------------------------------------------------------------
(* update_complaint_status *)
\* mutation: the loop keeps the last match instead of breaking at the first
FirstMatch_Last(history, complaint_id) ==
    IF \E i \in DOMAIN history : history[i].complaint_id = complaint_id
    THEN CHOOSE i \in DOMAIN history :
            /\ history[i].complaint_id = complaint_id
            /\ \A j \in DOMAIN history : history[j].complaint_id = complaint_id => j <= i
    ELSE 0

\* index of the first record with this id, 0 when the for loop finds none
FirstMatch(history, complaint_id) ==
    IF \E i \in DOMAIN history : history[i].complaint_id = complaint_id
    THEN CHOOSE i \in DOMAIN history :
            /\ history[i].complaint_id = complaint_id
            /\ \A j \in DOMAIN history : history[j].complaint_id = complaint_id => i <= j
    ELSE 0
\* mutation: the history entry is appended but status is not assigned
UpdateRecord_NoStatus(record, new_status, notes, t) ==
    [record EXCEPT
        !.status_history = Append(@, [status |-> new_status, timestamp |-> Stamp(t)]),
        !.authority_notes = IF notes # "" THEN notes ELSE @]

\* mutation: the history is replaced by the new entry
UpdateRecord_Overwrite(record, new_status, notes, t) ==
    [record EXCEPT
        !.status = new_status,
        !.status_history = << [status |-> new_status, timestamp |-> Stamp(t)] >>,
        !.authority_notes = IF notes # "" THEN notes ELSE @]

\* mutation: the update also stamps the record's timestamp
UpdateRecord_Restamp(record, new_status, notes, t) ==
    [record EXCEPT
        !.timestamp = Stamp(t),
        !.status = new_status,
        !.status_history = Append(@, [status |-> new_status, timestamp |-> Stamp(t)]),
        !.authority_notes = IF notes # "" THEN notes ELSE @]

\* mutation: a RESOLVED or REJECTED record keeps its status
UpdateRecord_ForwardOnly(record, new_status, notes, t) ==
    [record EXCEPT
        !.status = IF @ \in {"RESOLVED", "REJECTED"} THEN @ ELSE new_status,
        !.status_history = Append(@, [status |-> new_status, timestamp |-> Stamp(t)]),
        !.authority_notes = IF notes # "" THEN notes ELSE @]

\* mutation: the notes are assigned even when they are empty
UpdateRecord_AlwaysNotes(record, new_status, notes, t) ==
    [record EXCEPT
        !.status = new_status,
        !.status_history = Append(@, [status |-> new_status, timestamp |-> Stamp(t)]),
        !.authority_notes = notes]

\* lines 309-315 on the matching record
UpdateRecord(record, new_status, notes, t) ==
    [record EXCEPT
        !.status = new_status,
        !.status_history = Append(@, [status |-> new_status, timestamp |-> Stamp(t)]),
        !.authority_notes = IF notes # "" THEN notes ELSE @]
\* mutation: save_memory is called whether or not a record matched
update_complaint_status_AlwaysSaves(complaint_id, new_status, notes) ==
    LET history == load_memory(fileState, store)
        i == FirstMatch(history, complaint_id)
    IN  /\ call' = [op |-> "update", complaint_id |-> complaint_id,
                    new_status |-> new_status, notes |-> notes]
        /\ result' = <<>>
        /\ raised' = FALSE
        /\ risk' = Null
        /\ UNCHANGED <<now, sessions>>
        /\ store' = IF i # 0
                    THEN [history EXCEPT ![i] = UpdateRecord(history[i], new_status, notes, now)]
                    ELSE history
        /\ fileState' = "ok"
        /\ writes' = 1
        /\ updated' = (i # 0)

update_complaint_status(complaint_id, new_status, notes) ==
    LET history == load_memory(fileState, store)
        i == FirstMatch(history, complaint_id)
    IN  /\ call' = [op |-> "update", complaint_id |-> complaint_id,
                    new_status |-> new_status, notes |-> notes]
        /\ result' = <<>>
        /\ raised' = FALSE
        /\ risk' = Null
        /\ UNCHANGED <<now, sessions>>
        /\ IF i # 0
           THEN /\ store' = [history EXCEPT ![i] = UpdateRecord(history[i], new_status, notes, now)]
                /\ fileState' = "ok"
                /\ writes' = 1
                /\ updated' = TRUE
           ELSE /\ UNCHANGED <<fileState, store>>
                /\ writes' = 0
                /\ updated' = FALSE

----------------------------------------------------------------------------
(* Inputs *)

Locations == { <<"M", "G">>, <<"m", "g">>, <<"P">> }

CitizenName == "Rahul Sharma"
CitizenPhone == "9876543210"

\* what the dashboard sends: any status with the notes left empty, or
\* RESOLVED with a note
Edits ==
    {[new_status |-> s, notes |-> ""] : s \in COMPLAINT_STATUS}
        \cup {[new_status |-> "RESOLVED", notes |-> "fixed"]}

Object(damage_type, severity, metadata, description) ==
    [kind |-> "object",
     data |-> [damage_type |-> damage_type, severity |-> severity,
               metadata |-> metadata, description |-> description]]

\* the vision call raises, or answers text that is no JSON object
VisionError == [kind |-> "error"]
\* severity 9, monsoon_critical only
VisionGood ==
    Object(StrV("pothole"), IntV(9),
           DictV({"monsoon_critical"}, MetaKeys \ {"monsoon_critical"}), StrV("deep pothole"))
\* the answer "{}"
VisionEmpty == Object(Absent, Absent, Absent, Absent)

Visions == {VisionError, VisionGood, VisionEmpty}

\* severities the scorer is called with: in and out of 1..10, null, a word
ScoredSeverities == {IntV(n) : n \in -1 .. 11} \cup {Null, StrV("high")}

\* severities of the vision answers of the pipeline specification
Severities == {IntV(n) : n \in {-1, 0, 1, 5, 8, 10, 11}} \cup {Null, StrV("high"), Absent}

AllMetadata == {DictV(on, MetaKeys \ on) : on \in SUBSET MetaKeys}

Metadatas ==
    {DictV({}, MetaKeys), DictV({"near_school"}, MetaKeys \ {"near_school"}),
     DictV({"monsoon_critical"}, MetaKeys \ {"monsoon_critical"}), DictV(MetaKeys, {}),
     DictV({}, {}), Null, Absent}

AllVisions ==
    {VisionError, VisionEmpty}
        \cup {Object(StrV("pothole"), sv, md, StrV("deep pothole")) :
                 sv \in Severities, md \in Metadatas}

PlanError == [kind |-> "error"]
PlanText == [kind |-> "text", text |-> "1. Immediate Actions"]
Plans == {PlanError, PlanText}

\* the ids the store holds
Ids(history) == {history[i].complaint_id : i \in DOMAIN history}
\* the id of a second before the clock's start
UnknownId == generate_complaint_id(-1)

\* two browser sessions, each running the script on its own thread
Sessions == {"a", "b"}
Idle == [pc |-> "idle"]

\* what the person at each session enters
CitizenOf(s) == IF s = "a" THEN CitizenName ELSE "Priya Nair"
PhoneOf(s) == IF s = "a" THEN CitizenPhone ELSE "9123456780"
StatusOf(s) == IF s = "a" THEN "IN_PROGRESS" ELSE "RESOLVED"

RECURSIVE Entries(_)
Entries(history) ==
    IF history = <<>> THEN 0
    ELSE Len(Head(history).status_history) + Entries(Tail(history))

----------------------------------------------------------------------------
(* Specifications *)

Init ==
    /\ fileState \in {"missing", "malformed"}
    /\ store = <<>>
    /\ now = 0
    /\ call = [op |-> "none"]
    /\ result = <<>>
    /\ updated = FALSE
    /\ raised = FALSE
    /\ risk = Null
    /\ writes = 0
    /\ sessions = [s \in Sessions |-> Idle]

\* the seconds some stored id or history entry shows
Observed(history) ==
    {history[i].complaint_id.digits : i \in DOMAIN history}
        \cup UNION {{history[i].status_history[j].timestamp.ymdhms :
                         j \in DOMAIN history[i].status_history} : i \in DOMAIN history}

\* The clock moves on between two operations.  Seconds are only ever compared
\* for equality, so a second in which nothing was stamped is not counted.
Tick ==
    /\ now \in Observed(load_memory(fileState, store))
    /\ now' = now + 1
    /\ call' = [op |-> "tick"]
    /\ result' = <<>>
    /\ updated' = FALSE
    /\ raised' = FALSE
    /\ risk' = Null
    /\ writes' = 0
    /\ UNCHANGED <<fileState, store, sessions>>

\* the plan service answers in this specification; the clock does not move
\* inside a call
Submit ==
    \E location \in Locations, vision \in Visions :
        /\ Entries(store) < MaxEntries
        /\ run_audit_pipeline(location, Pothole, CitizenName, CitizenPhone,
                              vision, PlanText, now, now, now)

\* the authority dashboard's call, on a complaint of the store
UpdateStatus ==
    \E complaint_id \in Ids(load_memory(fileState, store)), edit \in Edits :
        /\ FirstMatch(load_memory(fileState, store), complaint_id) # 0
        /\ Entries(store) < MaxEntries
        /\ update_complaint_status(complaint_id, edit.new_status, edit.notes)

\* a call with an id that was never issued
UpdateUnknown ==
    /\ FirstMatch(load_memory(fileState, store), UnknownId) = 0
    /\ update_complaint_status(UnknownId, "RESOLVED", "fixed")

Next == Tick \/ Submit \/ UpdateStatus \/ UpdateUnknown

Spec == Init /\ [][Next]_vars

\* the pipeline alone, over every shape of answer the two services can give
SubmitAny ==
    \E issue_type \in ISSUE_TYPES, vision \in AllVisions, plan \in Plans :
        /\ Len(store) < MaxPipelineStore
        /\ run_audit_pipeline(<<"P">>, issue_type, CitizenName, CitizenPhone,
                              vision, plan, now, now, now)

NextPipeline == SubmitAny

SpecPipeline == Init /\ [][NextPipeline]_vars

\* the scorer alone
Score ==
    \E severity \in ScoredSeverities, metadata \in AllMetadata \cup {Null} :
        /\ call' = [op |-> "risk", severity |-> severity, metadata |-> metadata]
        /\ risk' = risk_assessment_tool(StrV("pothole"), severity, metadata)
        /\ UNCHANGED <<fileState, store, now, result, updated, raised, writes, sessions>>

NextRisk == Score

SpecRisk == Init /\ [][NextRisk]_vars

----------------------------------------------------------------------------
(* The clock during one submit: generate_complaint_id and the record's two
   timestamps each read datetime.now() on their own *)

\* seconds the clock may advance between two of the readings
MaxDrift == 1

SubmitDrift ==
    \E vision \in AllVisions, plan \in Plans :
        \E t_id \in now .. now + MaxDrift :
            \E t_record \in t_id .. t_id + MaxDrift :
                \E t_history \in t_record .. t_record + MaxDrift :
                    /\ Len(store) < MaxPipelineStore
                    /\ run_audit_pipeline(<<"P">>, Pothole, CitizenName, CitizenPhone,
                                          vision, plan, t_id, t_record, t_history)

NextClock == SubmitDrift

SpecClock == Init /\ [][NextClock]_vars

----------------------------------------------------------------------------
(* The dashboard's notes: updates that carry different notes, or none *)

NoteEdits ==
    {[new_status |-> "RESOLVED", notes |-> "fixed"],
     [new_status |-> "REJECTED", notes |-> "duplicate"],
     [new_status |-> "IN_PROGRESS", notes |-> ""]}

SubmitNoted ==
    /\ Entries(store) < MaxEntries
    /\ run_audit_pipeline(<<"P">>, Pothole, CitizenName, CitizenPhone,
                          VisionGood, PlanText, now, now, now)

UpdateNoted ==
    \E complaint_id \in Ids(load_memory(fileState, store)), edit \in NoteEdits :
        /\ Entries(store) < MaxEntries
        /\ update_complaint_status(complaint_id, edit.new_status, edit.notes)

NextNotes == Tick \/ SubmitNoted \/ UpdateNoted \/ UpdateUnknown

SpecNotes == Init /\ [][NextNotes]_vars

----------------------------------------------------------------------------
(* The file: missing at first, or damaged between two operations *)

\* save_memory rewrites the file in place; a write that is cut short, or any
\* edit by other hands, leaves text json.load cannot parse.  store keeps the
\* records that text came from; load_memory does not see them.
Damage ==
    /\ fileState = "ok"
    /\ fileState' = "malformed"
    /\ call' = [op |-> "damage"]
    /\ result' = <<>>
    /\ updated' = FALSE
    /\ raised' = FALSE
    /\ risk' = Null
    /\ writes' = 0
    /\ UNCHANGED <<store, now, sessions>>

SubmitOnFile ==
    \E location \in Locations, vision \in {VisionGood, VisionError} :
        /\ Entries(load_memory(fileState, store)) < MaxEntries
        /\ run_audit_pipeline(location, Pothole, CitizenName, CitizenPhone,
                              vision, PlanText, now, now, now)

\* the dashboard's call with the id of this second's complaints, or with an
\* id that was never issued
UpdateOnFile ==
    \E complaint_id \in {generate_complaint_id(now), UnknownId} :
        /\ Entries(load_memory(fileState, store)) < MaxEntries
        /\ update_complaint_status(complaint_id, "RESOLVED", "fixed")

NextFile == Damage \/ SubmitOnFile \/ UpdateOnFile

SpecFile == Init /\ [][NextFile]_vars

----------------------------------------------------------------------------
(* Two sessions at once: each operation reads the whole file, changes its
   own copy and writes the whole file, with nothing to keep another session
   from doing the same in between *)

\* a complaint filed before the two sessions start
FirstSubmit ==
    /\ load_memory(fileState, store) = <<>>
    /\ \A s \in Sessions : sessions[s] = Idle
    /\ run_audit_pipeline(<<"P">>, Pothole, "Asha Rao", "9000000001",
                          VisionGood, PlanText, now, now, now)

\* lines 248-291: the four phases and the record, not yet stored
BeginSubmit(s) ==
    /\ sessions[s] = Idle
    /\ LET vision_data == analyze_image_with_vision(VisionGood, Pothole)
           risk_data == PipelineRisk(vision_data)
           context == get_context_summary(<<"P">>, load_memory(fileState, store))
           action_plan == generate_action_plan(vision_data, risk_data, context, <<"P">>, PlanText)
           record == NewRecord(generate_complaint_id(now), now, now, <<"P">>, Pothole,
                               CitizenOf(s), PhoneOf(s), vision_data, risk_data,
                               action_plan, context)
       IN  sessions' = [sessions EXCEPT ![s] =
               [pc |-> "built", op |-> "submit", record |-> record]]
    /\ UNCHANGED <<fileState, store, now, call, result, updated, raised, risk, writes>>

\* lines 294-295: history = load_memory(); history.append(record)
LoadAppend(s) ==
    /\ sessions[s].pc = "built"
    /\ sessions' = [sessions EXCEPT ![s] =
           [pc |-> "save", op |-> "submit", record |-> sessions[s].record,
            history |-> Append(load_memory(fileState, store), sessions[s].record),
            missed |-> {}, returned |-> FALSE]]
    /\ UNCHANGED <<fileState, store, now, call, result, updated, raised, risk, writes>>

\* lines 304-317: history = load_memory() and the loop; an id that is not
\* found ends the call at line 322 with False
BeginUpdate(s) ==
    \E complaint_id \in Ids(load_memory(fileState, store)) \cup {UnknownId} :
        /\ sessions[s] = Idle
        /\ LET history == load_memory(fileState, store)
               i == FirstMatch(history, complaint_id)
           IN  sessions' = [sessions EXCEPT ![s] =
                   IF i # 0
                   THEN [pc |-> "save", op |-> "update", complaint_id |-> complaint_id,
                         entry |-> [status |-> StatusOf(s), timestamp |-> Stamp(now)],
                         history |-> [history EXCEPT
                                         ![i] = UpdateRecord(history[i], StatusOf(s), "", now)],
                         missed |-> {}, returned |-> FALSE]
                   ELSE [pc |-> "done", op |-> "update", complaint_id |-> complaint_id,
                         missed |-> {}, returned |-> FALSE]]
        /\ UNCHANGED <<fileState, store, now, call, result, updated, raised, risk, writes>>

\* line 296 or line 320: save_memory(history), then the return of the record
\* or of True.  missed collects, for a session that has loaded and not yet
\* saved, the sessions that saved meanwhile.
Save(s) ==
    /\ sessions[s].pc = "save"
    /\ store' = save_memory(sessions[s].history, load_memory(fileState, store))
    /\ fileState' = "ok"
    /\ sessions' = [o \in Sessions |->
           IF o = s THEN [sessions[s] EXCEPT !.pc = "done", !.returned = TRUE]
           ELSE IF sessions[o].pc = "save"
           THEN [sessions[o] EXCEPT !.missed = @ \cup {s}]
           ELSE sessions[o]]
    /\ call' = [op |-> "save", session |-> s]
    /\ result' = IF sessions[s].op = "submit" THEN << sessions[s].record >> ELSE <<>>
    /\ updated' = (sessions[s].op = "update")
    /\ raised' = FALSE
    /\ risk' = Null
    /\ writes' = 1
    /\ UNCHANGED now

NextRace ==
    \/ Tick
    \/ FirstSubmit
    \/ \E s \in Sessions : BeginSubmit(s)
    \/ \E s \in Sessions : LoadAppend(s)
    \/ \E s \in Sessions : BeginUpdate(s)
    \/ \E s \in Sessions : Save(s)

SpecRace == Init /\ [][NextRace]_vars

----------------------------------------------------------------------------
(* Helpers of the properties *)

Last(seq) == seq[Len(seq)]

IsPrefix(a, b) == Len(a) <= Len(b) /\ SubSeq(b, 1, Len(a)) = a

\* what load_memory returns in the current state
Stored == load_memory(fileState, store)

\* indices of the stored records that carry this id
WithId(history, complaint_id) ==
    {i \in DOMAIN history : history[i].complaint_id = complaint_id}

\* the smallest element of a non-empty set of indices
Least(S) == CHOOSE i \in S : \A j \in S : i <= j
Greatest(S) == CHOOSE i \in S : \A j \in S : j <= i

----------------------------------------------------------------------------
(* C1 - C4: status, status_history and update_complaint_status *)

\* C1: every stored record's status is the status of the last entry of its
\* own status_history.
C1_StatusIsLastHistory ==
    \A i \in DOMAIN Stored :
        /\ Stored[i].status_history # <<>>
        /\ Stored[i].status = Last(Stored[i].status_history).status

\* an update has moved a record away from SUBMITTED
C1_Witness ==
    \E i \in DOMAIN Stored :
        /\ Len(Stored[i].status_history) >= 2
        /\ Stored[i].status # "SUBMITTED"

\* C2: status_history is append-only: in every step each stored record is
\* still at its place and its old history is a prefix of its new one; every
\* history has at least one entry and starts with SUBMITTED.
C2_HistoryAppendOnly ==
    [][ /\ \A i \in DOMAIN Stored :
              /\ i \in DOMAIN store'
              /\ IsPrefix(Stored[i].status_history, store'[i].status_history)
        /\ \A i \in DOMAIN store' :
              /\ Len(store'[i].status_history) >= 1
              /\ store'[i].status_history[1].status = "SUBMITTED" ]_vars

\* a history that grew while another record stood beside it
C2_Witness ==
    /\ Len(Stored) >= 2
    /\ \E i \in DOMAIN Stored :
          /\ Len(Stored[i].status_history) >= 2
          /\ Last(Stored[i].status_history).status # "SUBMITTED"

\* C3: update_complaint_status with an id that some record carries returns
\* True and changes only the first such record: its status becomes new_status
\* and its history gains the one entry {new_status, now}; every other record
\* and the length and order of the store stay as they were.
C3_UpdateExisting ==
    [][ (call'.op = "update" /\ WithId(Stored, call'.complaint_id) # {}) =>
            LET k == Least(WithId(Stored, call'.complaint_id))
            IN  /\ updated'
                /\ ~raised'
                /\ fileState' = "ok"
                /\ Len(store') = Len(Stored)
                /\ store'[k].status = call'.new_status
                /\ store'[k].status_history =
                       Append(Stored[k].status_history,
                              [status |-> call'.new_status, timestamp |-> Stamp(now)])
                /\ store'[k].complaint_id = Stored[k].complaint_id
                /\ \A j \in DOMAIN Stored : j # k => store'[j] = Stored[j] ]_vars

\* two records carry the id of the call; the first was updated, the second not
C3_Witness ==
    /\ call.op = "update"
    /\ updated
    /\ \E i, j \in DOMAIN Stored :
          /\ i < j
          /\ Stored[i].complaint_id = call.complaint_id
          /\ Stored[j].complaint_id = call.complaint_id
          /\ Len(Stored[i].status_history) = 2
          /\ Len(Stored[j].status_history) = 1

\* C4: update_complaint_status with an id no record carries returns False,
\* raises nothing and leaves the file as it was: no record changed, no write.
C4_UpdateUnknown ==
    [][ (call'.op = "update" /\ WithId(Stored, call'.complaint_id) = {}) =>
            /\ ~updated'
            /\ ~raised'
            /\ writes' = 0
            /\ store' = store
            /\ fileState' = fileState ]_vars

\* a refused update on a store that holds a record
C4_Witness ==
    /\ call.op = "update"
    /\ ~updated
    /\ Stored # <<>>
    /\ WithId(Stored, call.complaint_id) = {}

----------------------------------------------------------------------------
(* C5 - C8: the risk score and the pipeline's outcomes *)

\* section 4.1 as arithmetic: 1 for a flag that is on, 0 otherwise
Flag(metadata, key) == IF metadata.tag = "dict" /\ key \in metadata.on THEN 1 ELSE 0

FormulaIndex(n, metadata) ==
    LET sum == 10 * n + 20 * Flag(metadata, "near_school")
                      + 15 * Flag(metadata, "heavy_traffic")
                      + 10 * Flag(metadata, "water_leak")
                      + 25 * Flag(metadata, "monsoon_critical")
    IN  IF sum > 100 THEN 100 ELSE sum

FormulaTier(index) ==
    CASE index >= 80 -> "CRITICAL"
      [] index >= 50 /\ index < 80 -> "HIGH"
      [] OTHER -> "MODERATE"

\* C5: for severity 1..10 and any four flags, risk_assessment_tool returns
\* risk_index = min(100, 10*severity + 20*near_school + 15*heavy_traffic +
\* 10*water_leak + 25*monsoon_critical), within 0..100, and the urgency tier
\* of that index.
C5_RiskFormula ==
    (/\ call.op = "risk"
     /\ call.severity.tag = "int"
     /\ call.severity.n \in 1 .. 10
     /\ call.metadata.tag = "dict") =>
        /\ risk.risk_index = FormulaIndex(call.severity.n, call.metadata)
        /\ risk.risk_index \in 0 .. 100
        /\ risk.urgency = FormulaTier(risk.risk_index)

\* severity 7 near a school in the monsoon: 115 capped to 100, CRITICAL
C5_Witness ==
    /\ call.op = "risk"
    /\ call.severity = IntV(7)
    /\ call.metadata.tag = "dict"
    /\ call.metadata.on = {"near_school", "monsoon_critical"}
    /\ risk = [risk_index |-> 100, urgency |-> "CRITICAL"]

\* C6: every stored record's risk_data is the section 4.1 score of its own
\* vision_data: risk_index within 0..100, equal to the formula on the
\* severity and flags, and urgency the tier of risk_index.
C6_RiskConsistent ==
    \A i \in DOMAIN Stored :
        LET vision_data == Stored[i].vision_data
            risk_data == Stored[i].risk_data
        IN  /\ risk_data.risk_index \in 0 .. 100
            /\ risk_data.urgency = FormulaTier(risk_data.risk_index)
            /\ vision_data.severity.tag = "int" =>
                   risk_data.risk_index =
                       FormulaIndex(vision_data.severity.n, vision_data.metadata)

\* C7: when the vision call fails, submit returns a record and appends it to
\* the store; the record has severity 5, the four flags false, and risk_data
\* {50, HIGH}.
C7_VisionFallback ==
    [][ (call'.op = "submit" /\ call'.vision = VisionError) =>
            /\ ~raised'
            /\ Len(result') = 1
            /\ store' = Append(Stored, result'[1])
            /\ fileState' = "ok"
            /\ result'[1].vision_data.severity = IntV(5)
            /\ result'[1].vision_data.metadata = DictV({}, MetaKeys)
            /\ result'[1].risk_data = [risk_index |-> 50, urgency |-> "HIGH"] ]_vars

\* both services failed and the record is in the store
C7_Witness ==
    /\ call.op = "submit"
    /\ call.vision = VisionError
    /\ call.plan = PlanError
    /\ Len(result) = 1
    /\ Stored # <<>>
    /\ Last(Stored) = result[1]
    /\ result[1].action_plan.kind = "fallback"

\* C8: submit never raises and ends in one of two ways: it returns a record
\* that the store has gained, or it returns no record and the store is as
\* before, the latter only when the vision answer is the empty structure;
\* a failing vision or plan service never prevents the former.
C8_SubmitOutcomes ==
    [][ call'.op = "submit" =>
            /\ ~raised'
            /\ \/ /\ Len(result') = 1
                  /\ store' = Append(Stored, result'[1])
               \/ /\ result' = <<>>
                  /\ UNCHANGED <<fileState, store>>
                  /\ call'.vision = VisionEmpty ]_vars

----------------------------------------------------------------------------
(* C9: get_context_summary *)

\* equal after lowercasing both sides, letter by letter
SameIgnoringCase(a, b) ==
    /\ Len(a) = Len(b)
    /\ \A i \in 1 .. Len(a) : LowerChar(a[i]) = LowerChar(b[i])

\* the result the claim describes, over the set M of matching positions
ExpectedSummary(location, history) ==
    LET M == {i \in DOMAIN history : SameIgnoringCase(history[i].location, location)}
        U == {i \in M : history[i].status # "RESOLVED"}
    IN  IF M = {}
        THEN [msg |-> "No prior incidents"]
        ELSE IF U # {}
        THEN [msg |-> "RECURRING ISSUE",
              count |-> Cardinality(U),
              last_sev |-> history[Greatest(M)].vision_data.severity]
        ELSE [msg |-> "All resolved", count |-> Cardinality(M)]

\* C9: the lookup returns the no-prior-incidents message when no record
\* matches the location ignoring case; the recurring-issue message with the
\* number of unresolved matches and the severity of the last match when some
\* match is not RESOLVED; otherwise the count of matches.  Locations that
\* differ only in case get the same answer, and the context a submit stores
\* is this answer over the store it found.
C9_ContextLookup ==
    /\ \A location \in Locations :
          get_context_summary(location, Stored) = ExpectedSummary(location, Stored)
    /\ \A a, b \in Locations :
          SameIgnoringCase(a, b) =>
              get_context_summary(a, Stored) = get_context_summary(b, Stored)
    /\ (call.op = "submit" /\ result # <<>>) =>
          result[1].context =
              ExpectedSummary(result[1].location, SubSeq(Stored, 1, Len(Stored) - 1))

\* a submit at "mg" found the resolved complaint filed at "MG"; the lookup
\* now reports one unresolved complaint with the new record's severity
C9_Witness ==
    /\ call.op = "submit"
    /\ Len(result) = 1
    /\ Len(Stored) = 2
    /\ Stored[1].location # Stored[2].location
    /\ result[1].context = [msg |-> "All resolved", count |-> 1]
    /\ get_context_summary(Stored[1].location, Stored)
          = [msg |-> "RECURRING ISSUE", count |-> 1,
             last_sev |-> Stored[2].vision_data.severity]
    /\ Stored[1].vision_data.severity # Stored[2].vision_data.severity

----------------------------------------------------------------------------
(* C10: the record run_audit_pipeline creates *)

\* C10: a submit that returns a record returns it with status SUBMITTED, one
\* history entry of status SUBMITTED and empty authority_notes, and the file
\* afterwards holds the previous store followed by that record.
C10_SubmitAppends ==
    [][ (call'.op = "submit" /\ result' # <<>>) =>
            /\ Len(result') = 1
            /\ result'[1].status = "SUBMITTED"
            /\ Len(result'[1].status_history) = 1
            /\ result'[1].status_history[1].status = "SUBMITTED"
            /\ result'[1].authority_notes = ""
            /\ fileState' = "ok"
            /\ store' = Append(Stored, result'[1]) ]_vars

\* the new record follows a record that an update had changed
C10_Witness ==
    /\ call.op = "submit"
    /\ Len(result) = 1
    /\ Len(Stored) = 2
    /\ Stored[2] = result[1]
    /\ Len(Stored[1].status_history) = 2
    /\ Stored[1].authority_notes = "fixed"

----------------------------------------------------------------------------
(* C11: what submit and update_complaint_status leave alone *)

\* the fields of a record that are assigned once, when it is created
Creation(record) ==
    << record.complaint_id, record.timestamp, record.location, record.issue_type,
       record.citizen_name, record.citizen_phone, record.vision_data,
       record.risk_data, record.action_plan, record.context >>

\* C11: in every step of a sequence of submits and updates, each stored
\* record stays at its place with its complaint_id, timestamp, location,
\* issue_type, citizen_name, citizen_phone, vision_data, risk_data,
\* action_plan and context as they were; the context is not computed again
\* when complaints of the same location are added or resolved.
C11_CreationFieldsKept ==
    [][ \A i \in DOMAIN Stored :
            /\ i \in DOMAIN store'
            /\ Creation(store'[i]) = Creation(Stored[i]) ]_vars

\* the second record still says one unresolved complaint at its location
\* after that complaint was resolved: a lookup now would say all resolved
C11_Witness ==
    /\ call.op = "update"
    /\ updated
    /\ Len(Stored) = 2
    /\ Stored[2].context.msg = "RECURRING ISSUE"
    /\ Stored[1].status = "RESOLVED"
    /\ get_context_summary(Stored[2].location, SubSeq(Stored, 1, 1))
          = [msg |-> "All resolved", count |-> 1]

----------------------------------------------------------------------------
(* C13: complaint ids *)

\* C13: any two distinct stored records have different complaint_id.
C13_UniqueIds ==
    \A i, j \in DOMAIN Stored :
        i # j => Stored[i].complaint_id # Stored[j].complaint_id

----------------------------------------------------------------------------
(* C14: the status graph *)

\* C14: an update of a stored record succeeds whatever status the record is
\* in and whatever status is asked for, RESOLVED and REJECTED included, and
\* leaves the record in the status asked for: no transition is rejected.
C14_AnyTransition ==
    [][ (call'.op = "update" /\ WithId(Stored, call'.complaint_id) # {}) =>
            LET k == Least(WithId(Stored, call'.complaint_id))
            IN  /\ Stored[k].status \in COMPLAINT_STATUS
                /\ call'.new_status \in COMPLAINT_STATUS
                /\ updated'
                /\ store'[k].status = call'.new_status
                /\ Last(store'[k].status_history).status = call'.new_status
                /\ Len(store'[k].status_history) = Len(Stored[k].status_history) + 1 ]_vars

\* a record that was RESOLVED has been taken back to SUBMITTED
C14_Witness ==
    /\ call.op = "update"
    /\ updated
    /\ \E i \in DOMAIN Stored :
          /\ Stored[i].complaint_id = call.complaint_id
          /\ Len(Stored[i].status_history) = 3
          /\ Stored[i].status_history[2].status = "RESOLVED"
          /\ Stored[i].status = "SUBMITTED"

----------------------------------------------------------------------------
(* C16: risk_assessment_tool on invalid inputs *)

\* C16: for every input, a null or non-numeric severity included, the scorer
\* returns the section 4.1 formula with an invalid severity read as zero and
\* missing flags as false, and the urgency is the tier of the risk_index it
\* returns.
C16_PermissiveScore ==
    call.op = "risk" =>
        LET n == IF call.severity.tag = "int" THEN call.severity.n ELSE 0
        IN  /\ risk.risk_index = FormulaIndex(n, call.metadata)
            /\ risk.urgency = FormulaTier(risk.risk_index)

----------------------------------------------------------------------------
(* C17: analyze_image_with_vision on answers of another shape *)

\* the shape the prompt asks for: damage_type, an integer severity, metadata
\* holding the four booleans, description
ExpectedShape(vision) ==
    /\ vision.kind = "object"
    /\ vision.data.damage_type.tag = "str"
    /\ vision.data.severity.tag = "int"
    /\ vision.data.metadata.tag = "dict"
    /\ vision.data.metadata.on \cup vision.data.metadata.off = MetaKeys
    /\ vision.data.description.tag = "str"

\* the payload the claim names: the issue-type label in lower case
LowercasedLabelFallback(issue_type) ==
    [damage_type |-> StrV(Lower(issue_type)),
     severity |-> IntV(5),
     metadata |-> DictV({}, MetaKeys),
     description |-> [tag |-> "manual", issue_type |-> issue_type]]

\* C17: when the vision call fails or its answer has not the expected shape,
\* the record a submit returns carries exactly the fallback payload:
\* damage_type the issue-type label in lower case, severity 5, the four flags
\* false and the manual-review description; an answer of another shape is
\* not passed on.
C17_FallbackUnlessShaped ==
    (call.op = "submit" /\ ~ExpectedShape(call.vision) /\ result # <<>>) =>
        result[1].vision_data = LowercasedLabelFallback(result[1].issue_type)

----------------------------------------------------------------------------
(* C19: the creation instant *)

\* C19: however the clock moves during a submit, the record it creates has
\* one creation instant: the timestamp of its first status_history entry is
\* the record's timestamp, and the digits of its complaint_id are that same
\* second.
C19_SingleInstant ==
    \A i \in DOMAIN Stored :
        /\ Stored[i].status_history[1].timestamp = Stored[i].timestamp
        /\ Stored[i].complaint_id.digits = Stored[i].timestamp.ymdhms

----------------------------------------------------------------------------
(* C18: authority_notes *)

\* C18: authority_notes changes only in the record an update matches: with
\* non-empty notes it becomes exactly those notes, whatever it held; with
\* empty notes it stays as it was.  A submit and an update that finds no
\* record leave every stored record's authority_notes alone.  An update to
\* RESOLVED with notes "fixed" right after the submit leaves the record with
\* two status_history entries and authority_notes "fixed".
C18_NotesOnlyByUpdate ==
    [][ \A i \in DOMAIN Stored :
            LET target == /\ call'.op = "update"
                          /\ WithId(Stored, call'.complaint_id) # {}
                          /\ i = Least(WithId(Stored, call'.complaint_id))
            IN  /\ i \in DOMAIN store'
                /\ (target /\ call'.notes # "") =>
                       /\ updated'
                       /\ store'[i].authority_notes = call'.notes
                /\ ~(target /\ call'.notes # "") =>
                       store'[i].authority_notes = Stored[i].authority_notes
                /\ (/\ target
                    /\ Len(Stored[i].status_history) = 1
                    /\ call'.new_status = "RESOLVED"
                    /\ call'.notes = "fixed") =>
                       /\ Len(store'[i].status_history) = 2
                       /\ store'[i].status = "RESOLVED"
                       /\ store'[i].authority_notes = "fixed" ]_vars

\* the notes "fixed" of the update to RESOLVED were replaced by the notes of
\* the later update to REJECTED
C18_Witness ==
    /\ call.op = "update"
    /\ updated
    /\ call.notes = "duplicate"
    /\ \E i \in DOMAIN Stored :
          /\ Stored[i].complaint_id = call.complaint_id
          /\ Len(Stored[i].status_history) = 3
          /\ Stored[i].status_history[2].status = "RESOLVED"
          /\ Stored[i].status = "REJECTED"
          /\ Stored[i].authority_notes = "duplicate"

----------------------------------------------------------------------------
(* C15: a missing or unparseable file *)

\* C15: while the file is missing or cannot be parsed, every operation acts
\* as on an empty store and raises nothing: the lookup reports no prior
\* incidents for every location, update_complaint_status returns False and
\* writes nothing, and a submit returns its record, with the context of an
\* empty store, and leaves a file that holds this record alone.
C15_UnreadableIsEmpty ==
    [][ fileState # "ok" =>
            /\ \A location \in Locations :
                  get_context_summary(location, Stored) = get_context_summary(location, <<>>)
            /\ call'.op = "update" =>
                  /\ ~updated'
                  /\ ~raised'
                  /\ writes' = 0
                  /\ UNCHANGED <<fileState, store>>
            /\ call'.op = "submit" =>
                  /\ ~raised'
                  /\ Len(result') = 1
                  /\ result'[1].context = [msg |-> "No prior incidents"]
                  /\ fileState' = "ok"
                  /\ store' = << result'[1] >> ]_vars

\* the file held a record and was damaged; the update with that record's id
\* found nothing
C15_Witness ==
    /\ call.op = "update"
    /\ ~updated
    /\ fileState = "malformed"
    /\ \E i \in DOMAIN store :
          /\ store[i].complaint_id = call.complaint_id
          /\ store[i].status = "SUBMITTED"

----------------------------------------------------------------------------
(* C12: overlapping operations *)

\* the change of a session's operation is in this list of records: the
\* record it built, or the history entry it appended
Contains(history, session) ==
    IF session.op = "submit"
    THEN \E i \in DOMAIN history :
            /\ history[i].complaint_id = session.record.complaint_id
            /\ history[i].citizen_name = session.record.citizen_name
    ELSE \E i \in DOMAIN history :
            /\ history[i].complaint_id = session.complaint_id
            /\ \E j \in DOMAIN history[i].status_history :
                  history[i].status_history[j] = session.entry

\* C12: nothing serialises the operations.  When a session saves, the file
\* becomes exactly the list that session loaded and changed; if another
\* session saved after that load, both calls return success, the other
\* session's change was in the file just before and is not in it any more.
C12_LostUpdate ==
    [][ \A s \in Sessions :
            (sessions[s].pc = "save" /\ sessions'[s].pc = "done") =>
                /\ store' = sessions[s].history
                /\ fileState' = "ok"
                /\ sessions'[s].returned
                /\ \A o \in sessions[s].missed :
                      /\ sessions[o].pc = "done"
                      /\ sessions[o].returned
                      /\ Contains(Stored, sessions[o])
                      /\ ~Contains(store', sessions[o]) ]_vars

\* a submit and an update both loaded the file holding one complaint; the
\* submit saved first, the update saved last: both returned success and the
\* file holds one record, the new complaint is gone
C12_Witness ==
    \E s, o \in Sessions :
        /\ sessions[s].pc = "done"
        /\ sessions[o].pc = "done"
        /\ sessions[s].op = "update"
        /\ sessions[o].op = "submit"
        /\ o \in sessions[s].missed
        /\ sessions[s].returned
        /\ sessions[o].returned
        /\ call = [op |-> "save", session |-> s]
        /\ Len(Stored) = 1
        /\ ~Contains(Stored, sessions[o])

====
